---- MODULE Spec2Model ----
(***************************************************************************)
(* Model of results/fetch_results.py: a module-level nested loop that      *)
(* runs "rsync" once per (experiment type, experiment id) pair.            *)
(*                                                                         *)
(* Strings are TLA+ strings; \o, Len and SubSeq act on their characters.   *)
(* subprocess.run is modelled in two steps, the spawn of the child and the *)
(* blocking wait for its exit, so that overlap of children is observable.  *)
(* The model covers the runs in which the child can be spawned.            *)
(***************************************************************************)
EXTENDS Integers, Sequences, FiniteSets, TLC

\* Exit statuses a child may return are 0..MaxExitStatus (0 is success).
MaxExitStatus == 1

ExitStatuses == 0..MaxExitStatus

----------------------------------------------------------------------------
(* Module-level constants of the script.                                   *)

\* Variant: a category is listed that has no entry in EXPT_IDS.
TYPESWithUnknown == <<"SKIPV2", "SKIP", "VANILLA", "SKIPV3">>

TYPES == <<"SKIPV2", "SKIP", "VANILLA">>

\* Variant: an identifier of SKIP is listed again under VANILLA.
EXPT_IDSWithRepeat ==
    [SKIPV2  |-> <<18010267, 18010268, 18010269>>,
     SKIP    |-> <<18014477, 18010271, 18010272>>,
     VANILLA |-> <<18014141, 18010271, 18014144>>]

EXPT_IDS ==
    [SKIPV2  |-> <<18010267, 18010268, 18010269>>,
     SKIP    |-> <<18014477, 18010271, 18010272>>,
     VANILLA |-> <<18014141, 18014142, 18014144>>]

----------------------------------------------------------------------------
(* Construction of the argument vector of one call.                        *)

Digit(d) == SubSeq("0123456789", d + 1, d + 1)

\* str(n) as the f-string formats an int: decimal, no padding, '-' if negative.
RECURSIVE Str(_)
Str(n) ==
    IF n < 0 THEN "-" \o Str(0 - n)
    ELSE IF n < 10 THEN Digit(n)
    ELSE Str(n \div 10) \o Digit(n % 10)

\* Variant: the "/./" marker is left out and the identifier is zero-padded.
SourceArgPadded(t, id) ==
    "supercloud:research/FastDEQ.jl/logs/data-CIFAR10_type-" \o t
       \o "_size-TINY_discrete-false_jfb-false/0" \o Str(id) \o "/"

SourceArg(t, id) ==
    "supercloud:research/FastDEQ.jl/logs/data-CIFAR10_type-" \o t
       \o "_size-TINY_discrete-false_jfb-false/./" \o Str(id) \o "/"

\* Variant: a further option is passed.
ArgvWithDelete(t, id) == <<"rsync", "-vPrR", "--delete", SourceArg(t, id), "cifar10/tiny">>

Argv(t, id) == <<"rsync", "-vPrR", SourceArg(t, id), "cifar10/tiny">>

----------------------------------------------------------------------------
(* State.                                                                  *)
(*   pc         position of the interpreter in the script                  *)
(*   ti         number of elements the iterator over TYPES has yielded     *)
(*   ii         number of elements the iterator over EXPT_IDS[t] yielded   *)
(*   calls      argument vectors of the children spawned so far            *)
(*   issued     the values <<t, id>> of the loop variables at each spawn   *)
(*   running    children spawned and not yet exited                        *)
(*   completed  children that have exited                                  *)
(*   returncode exit status of the child that exited last (discarded)      *)
(*   nfailed    children that exited with a nonzero status                 *)

VARIABLES pc, ti, ii, calls, issued, running, completed, returncode, nfailed

vars == <<pc, ti, ii, calls, issued, running, completed, returncode, nfailed>>

\* The loop variables, bound once their iterator has yielded.
t == TYPES[ti]

id == EXPT_IDS[t][ii]

Init ==
    /\ pc = "for_t"
    /\ ti = 0
    /\ ii = 0
    /\ calls = <<>>
    /\ issued = <<>>
    /\ running = 0
    /\ completed = 0
    /\ returncode = 0
    /\ nfailed = 0

\* Variant: the outer loop runs over TYPES from its last element to its first.
ForTReversed ==
    /\ pc = "for_t"
    /\ IF ti = 0 \/ ti > 1
       THEN /\ ti' = IF ti = 0 THEN Len(TYPES) ELSE ti - 1
            /\ ii' = 0
            /\ pc' = "for_id"
       ELSE /\ pc' = "done"
            /\ UNCHANGED <<ti, ii>>
    /\ UNCHANGED <<calls, issued, running, completed, returncode, nfailed>>

\* Variant: the outer loop stops one element short.
ForTStopsShort ==
    /\ pc = "for_t"
    /\ IF ti < Len(TYPES) - 1
       THEN /\ ti' = ti + 1
            /\ ii' = 0
            /\ pc' = "for_id"
       ELSE /\ pc' = "done"
            /\ UNCHANGED <<ti, ii>>
    /\ UNCHANGED <<calls, issued, running, completed, returncode, nfailed>>

\* for t in TYPES: next element or exhaustion; then EXPT_IDS[t] is looked up
\* (KeyError on a missing key ends the script) and iterated from its start.
ForT ==
    /\ pc = "for_t"
    /\ IF ti < Len(TYPES)
       THEN /\ ti' = ti + 1
            /\ ii' = 0
            /\ pc' = IF TYPES[ti + 1] \in DOMAIN EXPT_IDS THEN "for_id" ELSE "error"
       ELSE /\ pc' = "done"
            /\ UNCHANGED <<ti, ii>>
    /\ UNCHANGED <<calls, issued, running, completed, returncode, nfailed>>

\* Variant: the inner loop starts at the second element of the list.
ForIdSkipsFirst ==
    /\ pc = "for_id"
    /\ IF ii < Len(EXPT_IDS[t])
       THEN /\ ii' = IF ii = 0 THEN 2 ELSE ii + 1
            /\ pc' = "run"
       ELSE /\ pc' = "for_t"
            /\ UNCHANGED ii
    /\ UNCHANGED <<ti, calls, issued, running, completed, returncode, nfailed>>

\* for id in EXPT_IDS[t]: next element, or exhaustion back to the outer loop.
ForId ==
    /\ pc = "for_id"
    /\ IF ii < Len(EXPT_IDS[t])
       THEN /\ ii' = ii + 1
            /\ pc' = "run"
       ELSE /\ pc' = "for_t"
            /\ UNCHANGED ii
    /\ UNCHANGED <<ti, calls, issued, running, completed, returncode, nfailed>>

\* Variant: subprocess.Popen, the child is spawned and not waited for.
RunSpawnNoWait ==
    /\ pc = "run"
    /\ calls' = Append(calls, Argv(t, id))
    /\ issued' = Append(issued, <<t, id>>)
    /\ running' = running + 1
    /\ pc' = "for_id"
    /\ UNCHANGED <<ti, ii, completed, returncode, nfailed>>

\* subprocess.run([...]), first half: the child is spawned with the argument
\* vector and the interpreter blocks on it.
RunSpawn ==
    /\ pc = "run"
    /\ calls' = Append(calls, Argv(t, id))
    /\ issued' = Append(issued, <<t, id>>)
    /\ running' = running + 1
    /\ pc' = "wait"
    /\ UNCHANGED <<ti, ii, completed, returncode, nfailed>>

\* Variant: check=True, a nonzero status raises CalledProcessError.
RunWaitChecked ==
    /\ pc = "wait"
    /\ \E rc \in ExitStatuses :
          /\ returncode' = rc
          /\ nfailed' = IF rc # 0 THEN nfailed + 1 ELSE nfailed
          /\ pc' = IF rc # 0 THEN "error" ELSE "for_id"
    /\ running' = running - 1
    /\ completed' = completed + 1
    /\ UNCHANGED <<ti, ii, calls, issued>>

\* subprocess.run([...]), second half: the child exits with some status; no
\* check=True, and the CompletedProcess is discarded, so the loop goes on.
RunWait ==
    /\ pc = "wait"
    /\ \E rc \in ExitStatuses :
          /\ returncode' = rc
          /\ nfailed' = IF rc # 0 THEN nfailed + 1 ELSE nfailed
    /\ running' = running - 1
    /\ completed' = completed + 1
    /\ pc' = "for_id"
    /\ UNCHANGED <<ti, ii, calls, issued>>

Next == ForT \/ ForId \/ RunSpawn \/ RunWait

Spec == Init /\ [][Next]_vars

\* The interpreter keeps executing, and every child eventually exits.
LiveSpec == Spec /\ WF_vars(ForT) /\ WF_vars(ForId) /\ WF_vars(RunSpawn) /\ WF_vars(RunWait)

----------------------------------------------------------------------------
(* Vocabulary of the properties: string tests, and the reading of a source *)
(* argument that the copy tool makes.                                      *)

StartsWith(s, p) == Len(p) <= Len(s) /\ SubSeq(s, 1, Len(p)) = p

EndsWith(s, p) == Len(p) <= Len(s) /\ SubSeq(s, Len(s) - Len(p) + 1, Len(s)) = p

Occurrences(s, p) == {i \in 1..(Len(s) - Len(p) + 1) : SubSeq(s, i, i + Len(p) - 1) = p}

Contains(s, p) == Occurrences(s, p) # {}

Chars(s) == {SubSeq(s, i, i) : i \in 1..Len(s)}

DigitChars == {"0", "1", "2", "3", "4", "5", "6", "7", "8", "9"}

DigitValue(c) ==
    CASE c = "0" -> 0 [] c = "1" -> 1 [] c = "2" -> 2 [] c = "3" -> 3 [] c = "4" -> 4
      [] c = "5" -> 5 [] c = "6" -> 6 [] c = "7" -> 7 [] c = "8" -> 8 [] c = "9" -> 9

\* The number a string of decimal digits denotes.
RECURSIVE DecimalValue(_)
DecimalValue(d) ==
    IF Len(d) = 0 THEN 0
    ELSE 10 * DecimalValue(SubSeq(d, 1, Len(d) - 1)) + DigitValue(SubSeq(d, Len(d), Len(d)))

\* d is the decimal numeral of the natural number n: digits only, no leading zero.
IsDecimalOf(d, n) ==
    /\ Len(d) >= 1
    /\ Chars(d) \subseteq DigitChars
    /\ (Len(d) > 1 => SubSeq(d, 1, 1) # "0")
    /\ DecimalValue(d) = n

\* The part of a source argument after its first "/./": with the
\* relative-path option, the path reproduced under the destination.
RelativeSuffix(src) ==
    LET occ == Occurrences(src, "/./")
        first == CHOOSE i \in occ : \A j \in occ : i <= j
    IN  IF occ = {} THEN src ELSE SubSeq(src, first + 3, Len(src))

\* The option letters of a cluster such as "-vPrR".
OptionLetters(opt) == Chars(SubSeq(opt, 2, Len(opt)))

\* All (Category, Identifier) pairs of the constants.
Pairs ==
    UNION {{<<TYPES[i], EXPT_IDS[TYPES[i]][j]>> : j \in 1..Len(EXPT_IDS[TYPES[i]])} :
              i \in 1..Len(TYPES)}

----------------------------------------------------------------------------
(* Properties.  Source(k) and Destination(k) are the third and the fourth  *)
(* argument of the k-th call.                                              *)

Source(k) == calls[k][3]

Destination(k) == calls[k][Len(calls[k])]

\* The calls whose source path contains the category c and the decimal
\* numeral of the identifier n.
CallsFor(c, n) ==
    {k \in 1..Len(calls) : Contains(Source(k), c) /\ Contains(Source(k), Str(n))}

\* C1: in a complete run, for every Category of TYPES and every Identifier of
\* EXPT_IDS[Category] exactly one call has a source path containing both, and
\* every call has the destination "cifar10/tiny".
C1_EveryPairExactlyOnce ==
    pc = "done" =>
        /\ \A i \in 1..Len(TYPES) :
              \A j \in 1..Len(EXPT_IDS[TYPES[i]]) :
                 Cardinality(CallsFor(TYPES[i], EXPT_IDS[TYPES[i]][j])) = 1
        /\ \A k \in 1..Len(calls) : Destination(k) = "cifar10/tiny"

C1_Witness ==
    /\ pc = "done"
    /\ Cardinality(CallsFor("SKIP", 18014477)) = 1
    /\ Cardinality(CallsFor("SKIPV2", 18010269)) = 1

\* C2: the source argument of every call is the fixed text up to "type-", the
\* Category, the fixed text "_size-TINY_discrete-false_jfb-false/./", the
\* decimal numeral of the Identifier and "/"; for SKIP and 18010271 it ends in
\* "type-SKIP_size-TINY_discrete-false_jfb-false/./18010271/".
C2_SourceMatchesTemplate ==
    \A k \in 1..Len(calls) :
       LET c    == issued[k][1]
           n    == issued[k][2]
           head == "supercloud:research/FastDEQ.jl/logs/data-CIFAR10_type-"
           mid  == "_size-TINY_discrete-false_jfb-false/./"
           from == Len(head) + Len(c) + Len(mid)
           src  == Source(k)
       IN  /\ Len(src) > from + 1
           /\ SubSeq(src, 1, from) = head \o c \o mid
           /\ IsDecimalOf(SubSeq(src, from + 1, Len(src) - 1), n)
           /\ SubSeq(src, Len(src), Len(src)) = "/"
           /\ (c = "SKIP" /\ n = 18010271 =>
                 EndsWith(src, "type-SKIP_size-TINY_discrete-false_jfb-false/./18010271/"))

C2_Witness ==
    \E k \in 1..Len(calls) :
       /\ issued[k] = <<"SKIP", 18010271>>
       /\ Source(k) = "supercloud:research/FastDEQ.jl/logs/data-CIFAR10_type-SKIP_size-TINY_discrete-false_jfb-false/./18010271/"

\* Position of the category c in the declaration SKIPV2, SKIP, VANILLA.
CategoryRank(c) == CASE c = "SKIPV2" -> 1 [] c = "SKIP" -> 2 [] c = "VANILLA" -> 3 [] OTHER -> 0

\* Position of the identifier n in the list of the category c.
IdentifierRank(c, n) ==
    LET at == {j \in 1..Len(EXPT_IDS[c]) : EXPT_IDS[c][j] = n}
    IN  IF at = {} THEN 0 ELSE CHOOSE j \in at : \A j2 \in at : j <= j2

\* C3: calls follow declaration order: of two calls the earlier one is for an
\* earlier Category, or for the same Category and an earlier Identifier of its
\* list; so the calls of different Categories are never interleaved.
C3_DeclarationOrder ==
    /\ Len(issued) = Len(calls)
    /\ \A k \in 1..Len(calls) :
          /\ CategoryRank(issued[k][1]) >= 1
          /\ Contains(Source(k), "_type-" \o issued[k][1] \o "_size-")
          /\ EndsWith(Source(k), "/./" \o Str(issued[k][2]) \o "/")
    /\ \A k1 \in 1..Len(issued) :
          \A k2 \in (k1 + 1)..Len(issued) :
             \/ CategoryRank(issued[k1][1]) < CategoryRank(issued[k2][1])
             \/ /\ issued[k1][1] = issued[k2][1]
                /\ IdentifierRank(issued[k1][1], issued[k1][2])
                      < IdentifierRank(issued[k2][1], issued[k2][2])

C3_Witness ==
    /\ Len(issued) >= 5
    /\ issued[3][1] = "SKIPV2"
    /\ issued[4][1] = "SKIP"
    /\ issued[5] = <<"SKIP", 18010271>>

\* Sum of the lengths of the identifier lists of the categories ts.
RECURSIVE SumOfLengths(_)
SumOfLengths(ts) ==
    IF ts = <<>> THEN 0 ELSE Len(EXPT_IDS[Head(ts)]) + SumOfLengths(Tail(ts))

\* C4: the number of calls never exceeds the sum of the lengths of the
\* identifier lists, which is 9; a complete run has issued exactly that many,
\* each with destination "cifar10/tiny".
C4_CallCount ==
    /\ SumOfLengths(TYPES) = 9
    /\ Len(calls) <= SumOfLengths(TYPES)
    /\ (pc = "done" =>
          /\ Len(calls) = SumOfLengths(TYPES)
          /\ \A k \in 1..Len(calls) : calls[k][4] = "cifar10/tiny")

C4_Witness == pc = "done" /\ Len(calls) = 9 /\ completed = 9

\* src reads <remote-alias>:<path>/./<suffix>/ with none of the parts empty.
HasSourceForm(src) ==
    LET colons == Occurrences(src, ":")
        colon  == CHOOSE i \in colons : \A j \in colons : i <= j
        marks  == Occurrences(src, "/./")
        mark   == CHOOSE i \in marks : \A j \in marks : i <= j
    IN  /\ colons # {}
        /\ marks # {}
        /\ colon > 1
        /\ ~Contains(SubSeq(src, 1, colon - 1), "/")
        /\ mark > colon + 1
        /\ EndsWith(src, "/")
        /\ Len(src) > mark + 3

\* The k-th call is: the tool, one cluster of exactly the option letters
\* given, one source of the form above, and the destination directory.
CallHasShape(k, letters) ==
    /\ Len(calls[k]) = 4
    /\ calls[k][1] = "rsync"
    /\ StartsWith(calls[k][2], "-")
    /\ OptionLetters(calls[k][2]) = letters
    /\ HasSourceForm(calls[k][3])
    /\ calls[k][4] = "cifar10/tiny"

\* C5 as stated: every call passes the verbose (v), recursive (r) and
\* relative-path (R) options, one source <remote-alias>:<path>/./<suffix>/ and
\* one destination, and no other option or argument.
C5_AsStated == \A k \in 1..Len(calls) : CallHasShape(k, {"v", "r", "R"})

\* C5 as amended: every call passes the verbose (v), partial-with-progress
\* (P), recursive (r) and relative-path (R) options, one source
\* <remote-alias>:<path>/./<suffix>/ and one destination, and nothing else.
C5_FourOptions == \A k \in 1..Len(calls) : CallHasShape(k, {"v", "P", "r", "R"})

C5_Witness ==
    /\ Len(calls) >= 1
    /\ calls[1][2] = "-vPrR"
    /\ "P" \in OptionLetters(calls[1][2])
    /\ Len(calls[1]) = 4

\* C6: at most one child is alive at any time, and a call is issued only
\* when every earlier call has completed.
C6_StrictlySequential ==
    /\ running \in {0, 1}
    /\ running = Len(calls) - completed
    /\ (pc = "run" => completed = Len(calls))

C6_Witness == pc = "run" /\ Len(calls) = 4 /\ completed = 4 /\ running = 0

\* C8: whatever statuses the children return, the run neither aborts nor
\* repeats a pair: control never reaches the error exit, no pair is issued
\* twice, a call is issued only after all pairs before it, and a complete run
\* has issued all 9.
C8_ExitStatusIgnored ==
    /\ pc # "error"
    /\ nfailed <= completed
    /\ \A k1 \in 1..Len(issued) : \A k2 \in 1..Len(issued) :
          issued[k1] = issued[k2] => k1 = k2
    /\ (pc = "done" => Len(issued) = 9 /\ completed = 9 /\ {issued[k] : k \in 1..9} = Pairs)

C8_Witness == pc = "done" /\ nfailed = 5 /\ returncode # 0 /\ Len(calls) = 9

\* C9: the Identifiers issued are pairwise distinct across all Categories
\* (and a complete run has issued every pair of the constants), and any two
\* calls, which share the destination, differ in the path suffix reproduced
\* under it, the one of each being its "<Identifier>/".
C9_DistinctSuffixes ==
    /\ \A k1 \in 1..Len(issued) : \A k2 \in 1..Len(issued) :
          k1 # k2 => issued[k1][2] # issued[k2][2]
    /\ (pc = "done" => {issued[k] : k \in 1..Len(issued)} = Pairs)
    /\ \A k \in 1..Len(calls) :
          /\ Destination(k) = "cifar10/tiny"
          /\ RelativeSuffix(Source(k)) = Str(issued[k][2]) \o "/"
    /\ \A k1 \in 1..Len(calls) : \A k2 \in 1..Len(calls) :
          k1 # k2 => RelativeSuffix(Source(k1)) # RelativeSuffix(Source(k2))

C9_Witness ==
    /\ Len(calls) = 9
    /\ RelativeSuffix(Source(5)) = "18010271/"
    /\ RelativeSuffix(Source(8)) = "18014142/"

\* C10: if every child eventually exits, the run eventually finishes; it is
\* finished only when the call for (VANILLA, 18014144) has been issued last
\* and has completed; and every Category the loop reaches has an entry in
\* EXPT_IDS, so the run never stops on a failed lookup.
C10_Termination ==
    /\ <>(pc = "done")
    /\ [](pc = "done" =>
            /\ Len(issued) >= 1
            /\ issued[Len(issued)] = <<"VANILLA", 18014144>>
            /\ completed = Len(calls)
            /\ running = 0)
    /\ [](pc # "error")
    /\ [](pc = "for_id" => TYPES[ti] \in DOMAIN EXPT_IDS)

C10_Witness ==
    /\ pc = "done"
    /\ issued[Len(issued)] = <<"VANILLA", 18014144>>
    /\ running = 0
    /\ ti = 3

====
